---- MODULE Spec2Model ----
(***************************************************************************)
(* A model of synapse/notifier.py: the Notifier that wakes long-poll       *)
(* listeners (_NotificationListener) on new room / user events, on a       *)
(* deadline timer, or after the immediate check of get_events_for.         *)
(*                                                                         *)
(* Twisted runs everything on one reactor thread; an inlineCallbacks       *)
(* coroutine is suspended at each `yield` of an unfired Deferred.  One     *)
(* action of the model is one run of a handler from a resumption point to  *)
(* its next `yield` (or its end).                                          *)
(***************************************************************************)
EXTENDS Integers, Sequences, FiniteSets, TLC

\* ---------------------------------------------------------------- bounds
MaxListeners == 2      \* number of get_events_for calls
MaxToken     == 2      \* stream tokens are 1..MaxToken
MaxDispatch  == 1      \* on_new_*_event coroutines in flight at once
MaxLiveListeners == 1  \* calls followed to their end under fairness

\* ------------------------------------------------------- program values
NoToken == 0           \* a from_token for which `not from_token` holds

Users     == {"u1", "u2"}
Rooms     == {"r1", "r2"}
Limits    == {1}
Timeouts  == {0, 5000}
\* the arguments get_events_for is called with: the first call is u1's and
\* takes every other combination, the later ones are u2's, waiting in room
\* r1 from token 1
CallUsers(l)    == IF l = 1 THEN {"u1"} ELSE {"u2"}
CallRooms(l)    == IF l = 1 THEN {{}, {"r1"}} ELSE {{"r1"}}
CallTokens(l)   == IF l = 1 THEN {NoToken, 1} ELSE {1}
CallTimeouts(l) == IF l = 1 THEN Timeouts ELSE Timeouts \ {0}
Tokens    == 1..MaxToken
\* what event_sources.get_current_token() returns: the newest token
CurrentTokens == {MaxToken}
Listeners == 1..MaxListeners
Dispatchers == 1..MaxDispatch

\* self.event_sources.sources, in the order .values() iterates it
Sources == <<"room", "presence">>

VARIABLES
    rooms_to_listeners,   \* Notifier.rooms_to_listeners : dict room -> set
    user_to_listeners,    \* Notifier.user_to_listeners  : dict user -> set
    listener,             \* the _NotificationListener of each call
    deferred,             \* the Deferred get_events_for returns
    pc,                   \* where the _get_events coroutine of each call is
    check,                \* locals of its _check_for_updates
    timer,                \* the reactor.callLater of each call
    dispatch,             \* the on_new_room_event / on_new_user_event coroutines
    notifyError           \* an exception left _NotificationListener.notify

vars == <<rooms_to_listeners, user_to_listeners, listener, deferred, pc,
          check, timer, dispatch, notifyError>>

\* ------------------------------------------------------------- helpers
\* dict.get(key, set())
Get(dict, key) == IF key \in DOMAIN dict THEN dict[key] ELSE {}

\* dict.setdefault(key, set()).add(l)  /  ... |= ls
SetDefaultAdd(dict, key, ls) ==
    [k \in DOMAIN dict \cup {key} |-> Get(dict, k) \cup (IF k = key THEN ls ELSE {})]

NoResult == [kind |-> "none", events |-> <<>>, start |-> 0, end |-> 0,
             failure |-> "none"]

\* result = (events, (start_token, end_token))
Result(events, start_token, end_token) ==
    [kind |-> "result", events |-> events, start |-> start_token,
     end |-> end_token, failure |-> "none"]

\* the Failure an errback carries; `what` names the call that raised
Failure(what) ==
    [kind |-> "failure", events |-> <<>>, start |-> 0, end |-> 0,
     failure |-> what]

\* the rooms _user_joined_room is called with
JoinRooms == {"r2"}

NoListener == [user |-> "", rooms |-> {}, from_token |-> NoToken,
               limit |-> 0, timeout |-> 0]

NoCheck == [events |-> <<>>, from_token |-> NoToken,
            passed |-> <<>>, returned |-> <<>>]

NoQuery == [source |-> "", user |-> "", from_token |-> NoToken, limit |-> 0]

\* a dispatch coroutine: `listeners` is its local set (the snapshot), todo
\* what its `for` loop has yet to visit, cur the listener whose query it
\* waits for, q that query, asked the listeners it has queried so far
IdleDispatch == [listeners |-> {}, asked |-> <<>>, todo |-> {}, cur |-> 0,
                 q |-> NoQuery]

\* what source.get_new_events_for_user(user, from_token, limit) may return:
\* at most `limit` events of that source, with the token one further when
\* there are events (as far as the tokens of the model go), else unmoved
EventLists(source, limit) == {[i \in 1..n |-> source] : n \in 0..limit}
NewToken(from_token, events) ==
    IF events # <<>> /\ from_token < MaxToken THEN from_token + 1 ELSE from_token

\* the Notifier state a handler reads and writes while it runs
State == [r2l |-> rooms_to_listeners, u2l |-> user_to_listeners,
          deferred |-> deferred, err |-> notifyError]

\* Deferred.callback(result): fires the Deferred once; on a Deferred that was
\* already called it raises AlreadyCalledError and changes nothing
DeferredCallback(d, result) ==
    IF d.called
    THEN [deferred |-> d, raised |-> TRUE]
    ELSE [deferred |-> [called |-> TRUE, result |-> result], raised |-> FALSE]

\* NotifyCallback without its try/except: AlreadyCalledError leaves notify
NotifyCallback_NoExcept(d, result) == DeferredCallback(d, result)

\* try: self.deferred.callback(result)  except defer.AlreadyCalledError: pass
NotifyCallback(d, result) ==
    LET cb == DeferredCallback(d, result)
    IN  [deferred |-> cb.deferred, raised |-> FALSE]

\* NotifyDiscardRooms that empties the entries of the listener's rooms
NotifyDiscardRooms_Everyone(r2l, l) ==
    [room \in DOMAIN r2l |->
        IF room \in listener[l].rooms THEN {} ELSE r2l[room]]

\* the index entries notify() discards the listener from
NotifyDiscardRooms(r2l, l) ==
    [room \in DOMAIN r2l |->
        IF room \in listener[l].rooms THEN r2l[room] \ {l} ELSE r2l[room]]

\* NotifyDiscardUser without the discard
NotifyDiscardUser_Keep(u2l, l) == u2l

NotifyDiscardUser(u2l, l) ==
    [user \in DOMAIN u2l |->
        IF user = listener[l].user THEN u2l[user] \ {l} ELSE u2l[user]]

\* _NotificationListener.notify(notifier, events, start_token, end_token)
Notify(st, l, events, start_token, end_token) ==
    LET cb == NotifyCallback(st.deferred[l], Result(events, start_token, end_token))
    IN  [r2l      |-> NotifyDiscardRooms(st.r2l, l),
         u2l      |-> NotifyDiscardUser(st.u2l, l),
         deferred |-> [st.deferred EXCEPT ![l] = cb.deferred],
         err      |-> st.err \/ cb.raised]

\* TimeoutNotify ending at the newest token instead of from_token
TimeoutNotify_CurrentToken(st, l) ==
    Notify(st, l, <<>>, listener[l].from_token, MaxToken)

\* TimeoutNotify that never notifies
TimeoutNotify_Nothing(st, l) == st

\* Notifier._timeout_listener(listener)
TimeoutNotify(st, l) ==
    Notify(st, l, <<>>, listener[l].from_token, listener[l].from_token)

\* Notifier._register_with_keys(listener), for the listener lst of call l
RegisterWithKeys(st, l, lst) ==
    LET AddRooms[rs \in SUBSET Rooms] ==
            IF rs = {} THEN st.r2l
            ELSE LET room == CHOOSE r \in rs : TRUE
                 IN  SetDefaultAdd(AddRooms[rs \ {room}], room, {l})
    IN  [st EXCEPT !.r2l = AddRooms[lst.rooms],
                   !.u2l = SetDefaultAdd(st.u2l, lst.user, {l})]

\* Errback when get_events_for adds no errback to _get_events
Errback_Dropped(st, l, what) == st

\* deferred.errback(failure), the errback get_events_for adds to _get_events:
\* on a Deferred that was already called it raises AlreadyCalledError inside
\* the callback chain of _get_events, which nobody observes
Errback(st, l, what) ==
    IF st.deferred[l].called
    THEN st
    ELSE [st EXCEPT !.deferred[l] = [called |-> TRUE, result |-> Failure(what)]]

Commit(st) ==
    /\ rooms_to_listeners' = st.r2l
    /\ user_to_listeners'  = st.u2l
    /\ deferred'           = st.deferred
    /\ notifyError'        = st.err

\* CheckAdvance that leaves from_token where it was
CheckAdvance_NoChain(c, stuff, new_token) ==
    [c EXCEPT !.events = @ \o stuff,
              !.returned = Append(@, new_token)]

\* events.extend(stuff); from_token = new_token
CheckAdvance(c, stuff, new_token) ==
    [c EXCEPT !.events = @ \o stuff,
              !.from_token = new_token,
              !.returned = Append(@, new_token)]

\* the next source.get_new_events_for_user(listener.user, from_token, limit)
CheckQuery(c) == [c EXCEPT !.passed = Append(@, c.from_token)]

\* ------------------------------------------------------------------ Init
Init ==
    /\ rooms_to_listeners = << >>
    /\ user_to_listeners  = << >>
    /\ listener = [l \in Listeners |-> NoListener]
    /\ deferred = [l \in Listeners |-> [called |-> FALSE, result |-> NoResult]]
    /\ pc       = [l \in Listeners |-> "idle"]
    /\ check    = [l \in Listeners |-> NoCheck]
    /\ timer    = [l \in Listeners |-> "none"]
    /\ dispatch = [d \in Dispatchers |-> IdleDispatch]
    /\ notifyError = FALSE

\* --------------------------------------------------------------- actions
\* StartListener that arms the timer and leaves _register_with_keys for
\* after the check
StartListener_CheckFirst(l, lst) ==
    /\ listener' = [listener EXCEPT ![l] = lst]
    /\ timer' = [timer EXCEPT ![l] = IF lst.timeout # 0 THEN "armed" ELSE @]
    /\ check' = [check EXCEPT ![l] =
                    CheckQuery([NoCheck EXCEPT !.from_token = lst.from_token])]
    /\ pc' = [pc EXCEPT ![l] = "check"]
    /\ Commit(State)

\* StartListener without the `if timeout:` around _register_with_keys
StartListener_AlwaysRegister(l, lst) ==
    /\ listener' = [listener EXCEPT ![l] = lst]
    /\ timer' = [timer EXCEPT ![l] = IF lst.timeout # 0 THEN "armed" ELSE @]
    /\ check' = [check EXCEPT ![l] =
                    CheckQuery([NoCheck EXCEPT !.from_token = lst.from_token])]
    /\ pc' = [pc EXCEPT ![l] = "check"]
    /\ Commit(RegisterWithKeys(State, l, lst))

\* _get_events from the creation of the listener to the first `yield` of
\* _check_for_updates: arm the timer and register when timeout is non-zero,
\* then query the first source with listener.from_token
StartListener(l, lst) ==
    LET st == IF lst.timeout # 0 THEN RegisterWithKeys(State, l, lst) ELSE State
    IN  /\ listener' = [listener EXCEPT ![l] = lst]
        /\ timer' = [timer EXCEPT ![l] = IF lst.timeout # 0 THEN "armed" ELSE @]
        /\ check' = [check EXCEPT ![l] =
                        CheckQuery([NoCheck EXCEPT !.from_token = lst.from_token])]
        /\ pc' = [pc EXCEPT ![l] = "check"]
        /\ Commit(st)

\* get_events_for(user, rooms, pagination_config, timeout), up to the first
\* `yield` of _get_events
GetEventsFor(l, user, rooms, from_token, limit, timeout) ==
    /\ pc[l] = "idle"
    /\ \A k \in Listeners : k < l => pc[k] # "idle"
    /\ LET lst == [user |-> user, rooms |-> rooms, from_token |-> from_token,
                   limit |-> limit, timeout |-> timeout]
       IN  IF from_token = NoToken
           THEN /\ listener' = [listener EXCEPT ![l] = lst]
                /\ pc' = [pc EXCEPT ![l] = "get_current_token"]
                /\ UNCHANGED <<rooms_to_listeners, user_to_listeners, deferred,
                               check, timer, notifyError>>
           ELSE StartListener(l, lst)
    /\ UNCHANGED dispatch

\* CurrentTokenReturn that drops the token it fetched
CurrentTokenReturn_Dropped(l, tok) ==
    /\ pc[l] = "get_current_token"
    /\ StartListener(l, listener[l])
    /\ UNCHANGED dispatch

\* event_sources.get_current_token() returns tok
CurrentTokenReturn(l, tok) ==
    /\ pc[l] = "get_current_token"
    /\ StartListener(l, [listener[l] EXCEPT !.from_token = tok])
    /\ UNCHANGED dispatch

\* event_sources.get_current_token() fails: _get_events fails before any
\* listener exists, and the errback of get_events_for fails the Deferred
CurrentTokenFail(l) ==
    /\ pc[l] = "get_current_token"
    /\ pc' = [pc EXCEPT ![l] = "failed"]
    /\ Commit(Errback(State, l, "get_current_token"))
    /\ UNCHANGED <<listener, check, timer, dispatch>>

\* FinishCheck without the _timeout_listener of a zero timeout
FinishCheck_NoPollOnce(st, l, events, end_token) ==
    IF events # <<>>
    THEN Notify(st, l, events, listener[l].from_token, end_token)
    ELSE st

\* the end of _check_for_updates and of _get_events, once the last source
\* has answered: notify if events were found, then _timeout_listener when
\* timeout is zero
FinishCheck(st, l, events, end_token) ==
    LET st1 == IF events # <<>>
               THEN Notify(st, l, events, listener[l].from_token, end_token)
               ELSE st
    IN  IF listener[l].timeout = 0 THEN TimeoutNotify(st1, l) ELSE st1

\* the source _check_for_updates waits for returns (stuff, new_token)
CheckSourceReturn(l, stuff, new_token) ==
    /\ pc[l] = "check"
    /\ stuff \in EventLists(Sources[Len(check[l].passed)], listener[l].limit)
    /\ new_token = NewToken(check[l].passed[Len(check[l].passed)], stuff)
    /\ LET c == CheckAdvance(check[l], stuff, new_token)
       IN  IF Len(c.returned) < Len(Sources)
           THEN /\ check' = [check EXCEPT ![l] = CheckQuery(c)]
                /\ UNCHANGED <<pc, rooms_to_listeners, user_to_listeners,
                               deferred, notifyError>>
           ELSE /\ check' = [check EXCEPT ![l] = NoCheck]
                /\ pc' = [pc EXCEPT ![l] = "done"]
                /\ Commit(FinishCheck(State, l, c.events, c.from_token))
    /\ UNCHANGED <<listener, timer, dispatch>>

\* the source _check_for_updates waits for fails: the exception leaves
\* _check_for_updates and _get_events, and the errback fails the Deferred
CheckSourceFail(l) ==
    /\ pc[l] = "check"
    /\ pc' = [pc EXCEPT ![l] = "failed"]
    /\ check' = [check EXCEPT ![l] = NoCheck]
    /\ Commit(Errback(State, l, Sources[Len(check[l].passed)]))
    /\ UNCHANGED <<listener, timer, dispatch>>

\* the reactor runs the callLater of _get_events: _timeout_listener(listener)
TimeoutListener(l) ==
    /\ timer[l] = "armed"
    /\ timer' = [timer EXCEPT ![l] = "fired"]
    /\ Commit(TimeoutNotify(State, l))
    /\ UNCHANGED <<listener, pc, check, dispatch>>

\* UserJoinedRoom that creates the entry and merges into a copy of it
UserJoinedRoom_Rebind(user, room_id) ==
    /\ rooms_to_listeners' = SetDefaultAdd(rooms_to_listeners, room_id, {})
    /\ UNCHANGED <<user_to_listeners, listener, deferred, pc, check, timer,
                   dispatch, notifyError>>

\* Notifier._user_joined_room(user, room_id)
UserJoinedRoom(user, room_id) ==
    /\ rooms_to_listeners' =
           SetDefaultAdd(rooms_to_listeners, room_id, Get(user_to_listeners, user))
    /\ UNCHANGED <<user_to_listeners, listener, deferred, pc, check, timer,
                   dispatch, notifyError>>

\* the query a dispatch makes for a candidate listener
Query(source, l) ==
    [source |-> source, user |-> listener[l].user,
     from_token |-> listener[l].from_token, limit |-> listener[l].limit]

\* DispatchLoop whose iteration does not advance past the listener it takes
DispatchLoop_Revisit(d, source, dsp) ==
    IF dsp.todo = {}
    THEN dispatch' = [dispatch EXCEPT ![d] = IdleDispatch]
    ELSE \E l \in dsp.todo :
            dispatch' = [dispatch EXCEPT ![d] =
                            [listeners |-> dsp.listeners,
                             asked |-> IF Len(dsp.asked) < MaxListeners
                                       THEN Append(dsp.asked, l) ELSE dsp.asked,
                             todo |-> dsp.todo, cur |-> l,
                             q |-> Query(source, l)]]

\* `for listener in listeners:` takes any listener not yet visited and waits
\* for its query; the coroutine ends when none is left
DispatchLoop(d, source, dsp) ==
    IF dsp.todo = {}
    THEN dispatch' = [dispatch EXCEPT ![d] = IdleDispatch]
    ELSE \E l \in dsp.todo :
            dispatch' = [dispatch EXCEPT ![d] =
                            [listeners |-> dsp.listeners,
                             asked |-> Append(dsp.asked, l),
                             todo |-> dsp.todo \ {l}, cur |-> l,
                             q |-> Query(source, l)]]

\* the coroutine state right after the snapshot `listeners` is built
StartDispatch(listeners) ==
    [IdleDispatch EXCEPT !.listeners = listeners, !.todo = listeners]

\* OnNewRoomEvent that looks the room up with setdefault
OnNewRoomEvent_SetDefault(d, room_id, extra_users) ==
    /\ dispatch[d].cur = 0
    /\ DispatchLoop(d, "room",
           StartDispatch(
               Get(rooms_to_listeners, room_id)
                   \cup UNION {Get(user_to_listeners, user) : user \in extra_users}))
    /\ rooms_to_listeners' = SetDefaultAdd(rooms_to_listeners, room_id, {})
    /\ UNCHANGED <<user_to_listeners, listener, deferred,
                   pc, check, timer, notifyError>>

\* Notifier.on_new_room_event(event, extra_users), up to its first `yield`
OnNewRoomEvent(d, room_id, extra_users) ==
    /\ dispatch[d].cur = 0
    /\ DispatchLoop(d, "room",
           StartDispatch(
               Get(rooms_to_listeners, room_id)
                   \cup UNION {Get(user_to_listeners, user) : user \in extra_users}))
    /\ UNCHANGED <<rooms_to_listeners, user_to_listeners, listener, deferred,
                   pc, check, timer, notifyError>>

\* OnNewUserEvent that leaves out the listeners of `rooms`
OnNewUserEvent_UsersOnly(d, users, rooms) ==
    /\ dispatch[d].cur = 0
    /\ DispatchLoop(d, "presence",
           StartDispatch(UNION {Get(user_to_listeners, user) : user \in users}))
    /\ UNCHANGED <<rooms_to_listeners, user_to_listeners, listener, deferred,
                   pc, check, timer, notifyError>>

\* Notifier.on_new_user_event(users, rooms), up to its first `yield`
OnNewUserEvent(d, users, rooms) ==
    /\ dispatch[d].cur = 0
    /\ DispatchLoop(d, "presence",
           StartDispatch(
               UNION {Get(user_to_listeners, user) : user \in users}
                   \cup UNION {Get(rooms_to_listeners, room) : room \in rooms}))
    /\ UNCHANGED <<rooms_to_listeners, user_to_listeners, listener, deferred,
                   pc, check, timer, notifyError>>

\* DispatchNotify without the `if events:`
DispatchNotify_Always(st, l, events, end_token) ==
    Notify(st, l, events, listener[l].from_token, end_token)

\* DispatchNotify that starts the result at end_token
DispatchNotify_EndAsStart(st, l, events, end_token) ==
    IF events # <<>>
    THEN Notify(st, l, events, end_token, end_token)
    ELSE st

\* `if events: listener.notify(self, events, listener.from_token, end_token)`
DispatchNotify(st, l, events, end_token) ==
    IF events # <<>>
    THEN Notify(st, l, events, listener[l].from_token, end_token)
    ELSE st

\* the source a dispatch waits for returns (events, end_token)
DispatchSourceReturn(d, events, end_token) ==
    /\ dispatch[d].cur # 0
    /\ events \in EventLists(dispatch[d].q.source, dispatch[d].q.limit)
    /\ end_token = NewToken(dispatch[d].q.from_token, events)
    /\ Commit(DispatchNotify(State, dispatch[d].cur, events, end_token))
    /\ DispatchLoop(d, dispatch[d].q.source, dispatch[d])
    /\ UNCHANGED <<listener, pc, check, timer>>

\* the source a dispatch waits for fails: the exception ends the coroutine
DispatchSourceFail(d) ==
    /\ dispatch[d].cur # 0
    /\ dispatch' = [dispatch EXCEPT ![d] = IdleDispatch]
    /\ UNCHANGED <<rooms_to_listeners, user_to_listeners, listener, deferred,
                   pc, check, timer, notifyError>>

Next ==
    \/ \E l \in Listeners :
          \E user \in CallUsers(l), rooms \in CallRooms(l),
             from_token \in CallTokens(l), limit \in Limits,
             timeout \in CallTimeouts(l) :
            GetEventsFor(l, user, rooms, from_token, limit, timeout)
    \/ \E l \in Listeners, tok \in CurrentTokens : CurrentTokenReturn(l, tok)
    \/ \E l \in Listeners : CurrentTokenFail(l)
    \/ \E l \in Listeners, new_token \in Tokens :
          \E stuff \in UNION {EventLists(Sources[i], listener[l].limit) :
                                 i \in 1..Len(Sources)} :
            CheckSourceReturn(l, stuff, new_token)
    \/ \E l \in Listeners : CheckSourceFail(l)
    \/ \E l \in Listeners : TimeoutListener(l)
    \/ \E user \in Users, room_id \in JoinRooms : UserJoinedRoom(user, room_id)
    \/ \E d \in Dispatchers, room_id \in Rooms, extra_users \in SUBSET Users :
            OnNewRoomEvent(d, room_id, extra_users)
    \/ \E d \in Dispatchers, users \in SUBSET Users, rooms \in SUBSET Rooms :
            OnNewUserEvent(d, users, rooms)
    \/ \E d \in Dispatchers, end_token \in Tokens :
          \E events \in EventLists(dispatch[d].q.source, dispatch[d].q.limit) :
            DispatchSourceReturn(d, events, end_token)
    \/ \E d \in Dispatchers : DispatchSourceFail(d)

Spec == Init /\ [][Next]_vars

\* ------------------------------------------------- fairness (liveness)
\* the reactor resumes a coroutine whose awaited call has returned or failed
GetEventsStep(l) ==
    \/ \E tok \in CurrentTokens : CurrentTokenReturn(l, tok)
    \/ CurrentTokenFail(l)
    \/ \E new_token \in Tokens :
          \E stuff \in UNION {EventLists(Sources[i], listener[l].limit) :
                                 i \in 1..Len(Sources)} :
            CheckSourceReturn(l, stuff, new_token)
    \/ CheckSourceFail(l)

\* the steps of the first MaxLiveListeners calls and of their environment
LiveNext ==
    /\ Next
    /\ \A l \in Listeners : l > MaxLiveListeners => pc'[l] = "idle"

\* every awaited call eventually returns or fails, every armed timer fires
LiveSpec ==
    /\ Init
    /\ [][LiveNext]_vars
    /\ \A l \in Listeners : WF_vars(GetEventsStep(l)) /\ WF_vars(TimeoutListener(l))

\* ------------------------------------------------------------ vocabulary
Resolved(l) == deferred[l].called

\* l is in some set of rooms_to_listeners or of user_to_listeners
InIndex(l) ==
    \/ \E room \in DOMAIN rooms_to_listeners : l \in rooms_to_listeners[room]
    \/ \E user \in DOMAIN user_to_listeners : l \in user_to_listeners[user]

\* l is in the entry of one of its own rooms or of its own user
InOwnEntries(l) ==
    \/ \E room \in listener[l].rooms : l \in Get(rooms_to_listeners, room)
    \/ l \in Get(user_to_listeners, listener[l].user)

AllEventLists == UNION {EventLists(Sources[i], lim) :
                           i \in 1..Len(Sources), lim \in Limits}

\* _register_with_keys has run for the listener of call l (it runs with the
\* callLater of _get_events, and only there)
Registered(l) == timer[l] # "none"

\* the elements of a sequence
Range(seq) == {seq[i] : i \in 1..Len(seq)}

\* the listeners a dispatch has yet to finish with
Candidates(dsp) == dsp.todo \cup (IF dsp.cur = 0 THEN {} ELSE {dsp.cur})

\* ------------------------------------------------------------------- C1
\* C1: the Deferred of a call receives a result at most once: once it is
\* called, no step (notify from the immediate check, from a dispatch or from
\* the timer, or the errback) changes what it delivered, and no notify lets
\* an exception out to its caller.
C1_ResolvedOnce ==
    [][/\ \A l \in Listeners : Resolved(l) => deferred'[l] = deferred[l]
       /\ ~notifyError']_vars

\* a listener resolved with events on which the timer then fired: the second
\* notify found the Deferred already called
C1_Witness ==
    \E l \in Listeners :
        /\ timer[l] = "fired"
        /\ deferred[l].result.kind = "result"
        /\ deferred[l].result.events # <<>>

\* ------------------------------------------------------------------- C2
\* C2: every listener that a notify has resolved is, from then on, in no set
\* of rooms_to_listeners (the rooms _user_joined_room merged it into
\* included) and in no set of user_to_listeners.
C2_ResolvedNotIndexed ==
    \A l \in Listeners :
        (Resolved(l) /\ deferred[l].result.kind = "result") => ~InIndex(l)

\* ------------------------------------------------------------------- C3
\* C3: a listener created with timeout = 0 is never in a set of either
\* index, from the call of get_events_for on and at every suspension point,
\* and when its _get_events ends its Deferred is called: with the
\* events the check accumulated if there are any, else with an empty list
\* and start = end = from_token (with the failure, if a source failed).
C3_ZeroTimeout ==
    [][\A l \in Listeners :
         (pc'[l] # "idle" /\ listener'[l].timeout = 0) =>
            /\ ~InIndex(l)'
            /\ pc'[l] \in {"done", "failed"} => Resolved(l)'
            /\ pc'[l] = "failed" => deferred'[l].result.kind = "failure"
            /\ \A stuff \in AllEventLists, new_token \in Tokens :
                 (CheckSourceReturn(l, stuff, new_token) /\ pc'[l] = "done") =>
                    deferred'[l].result =
                        IF check[l].events \o stuff # <<>>
                        THEN Result(check[l].events \o stuff,
                                    listener[l].from_token, new_token)
                        ELSE Result(<<>>, listener[l].from_token,
                                    listener[l].from_token)]_vars

\* a zero-timeout call that ended with the empty payload
C3_Witness ==
    \E l \in Listeners :
        /\ pc[l] = "done"
        /\ listener[l].timeout = 0
        /\ deferred[l].result =
               Result(<<>>, listener[l].from_token, listener[l].from_token)

C5_Timeout ==
    [][\A l \in Listeners :
         /\ (timer'[l] = "armed" /\ Resolved(l)') =>
               \/ deferred'[l].result.kind = "failure"
               \/ deferred'[l].result.events # <<>>
         /\ (TimeoutListener(l) /\ ~Resolved(l)) =>
               /\ deferred'[l].result =
                      Result(<<>>, listener[l].from_token, listener[l].from_token)
               /\ ~InOwnEntries(l)']_vars

\* the timer fired on a listener that waited in room r1 and delivered the
\* empty payload
C5_Witness ==
    \E l \in Listeners :
        /\ timer[l] = "fired"
        /\ listener[l].rooms = {"r1"}
        /\ pc[l] = "done"
        /\ deferred[l].result =
               Result(<<>>, listener[l].from_token, listener[l].from_token)

\* ------------------------------------------------------------------- C6
\* C6: on_new_room_event(event, extra_users) takes as candidates every
\* listener in rooms_to_listeners[event.room_id] or in user_to_listeners[u]
\* for a u of extra_users, queries the room source with the candidate's own
\* user, from_token and limit, and when the query returns a non-empty list
\* with cursor t1 for an unresolved candidate L, L's Deferred gets
\* (events, (L.from_token, t1)) and L leaves the entries of its rooms and of
\* its user.
C6_RoomDispatch ==
    [][\A d \in Dispatchers :
         /\ \A room_id \in Rooms, extra_users \in SUBSET Users :
               OnNewRoomEvent(d, room_id, extra_users) =>
                  /\ Get(rooms_to_listeners, room_id) \subseteq Candidates(dispatch'[d])
                  /\ \A user \in extra_users :
                        Get(user_to_listeners, user) \subseteq Candidates(dispatch'[d])
                  /\ dispatch'[d].cur # 0 => dispatch'[d].q.source = "room"
         /\ dispatch'[d].cur # 0 =>
               LET L == dispatch'[d].cur
               IN  /\ dispatch'[d].q.user = listener[L].user
                   /\ dispatch'[d].q.from_token = listener[L].from_token
                   /\ dispatch'[d].q.limit = listener[L].limit
         /\ \A events \in AllEventLists, t1 \in Tokens :
               (/\ DispatchSourceReturn(d, events, t1)
                /\ dispatch[d].q.source = "room"
                /\ events # <<>>
                /\ ~Resolved(dispatch[d].cur)) =>
                  LET L == dispatch[d].cur
                  IN  /\ deferred'[L].result =
                             Result(events, listener[L].from_token, t1)
                      /\ \A room \in listener[L].rooms :
                            L \notin Get(rooms_to_listeners', room)
                      /\ L \notin Get(user_to_listeners', listener[L].user)]_vars

\* a listener still in its immediate check that a dispatch resolved with a
\* room event and the cursor after it
C6_Witness ==
    \E l \in Listeners :
        /\ pc[l] = "check"
        /\ listener[l].from_token < MaxToken
        /\ deferred[l].result =
               Result(<<"room">>, listener[l].from_token,
                      listener[l].from_token + 1)
        /\ ~InOwnEntries(l)

C8_JoinedRoom ==
    [][/\ \A user \in Users, room_id \in Rooms :
             UserJoinedRoom(user, room_id) =>
                /\ room_id \in DOMAIN rooms_to_listeners'
                /\ Get(user_to_listeners, user) \subseteq rooms_to_listeners'[room_id]
                /\ user_to_listeners' = user_to_listeners
       /\ \A l \in Listeners, room \in Rooms :
             (l \in Get(rooms_to_listeners, room) /\ ~Resolved(l)') =>
                l \in Get(rooms_to_listeners', room)
       /\ \A d \in Dispatchers, room_id \in Rooms :
             OnNewRoomEvent(d, room_id, {}) =>
                Candidates(dispatch'[d]) = Get(rooms_to_listeners, room_id)
       /\ \A d \in Dispatchers, events \in AllEventLists, t1 \in Tokens :
             (/\ DispatchSourceReturn(d, events, t1)
              /\ events # <<>>
              /\ ~Resolved(dispatch[d].cur)) =>
                /\ deferred'[dispatch[d].cur].called
                /\ deferred'[dispatch[d].cur].result.events = events]_vars

\* a listener with no rooms of its own, merged into r2 by a join, that a
\* room dispatch then resolved
C8_Witness ==
    \E l \in Listeners :
        /\ listener[l].rooms = {}
        /\ l \in Get(rooms_to_listeners, "r2")
        /\ l \notin Get(user_to_listeners, listener[l].user)
        /\ deferred[l].result.events = <<"room">>
        /\ pc[l] = "check"

\* ------------------------------------------------------------------- C9
\* C9: in _check_for_updates the first source is asked from the listener's
\* from_token, each next source from the cursor the one before returned, the
\* accumulated events are the sources' results in that order, and the result
\* the check delivers ends at the cursor the last source returned.
C9_CursorChain ==
    [][\A l \in Listeners, stuff \in AllEventLists, new_token \in Tokens :
         CheckSourceReturn(l, stuff, new_token) =>
            LET i == Len(check[l].passed)
            IN  /\ check[l].passed[1] = listener[l].from_token
                /\ i > 1 => check[l].passed[i] = check[l].returned[i - 1]
                /\ i < Len(Sources) =>
                      /\ pc'[l] = "check"
                      /\ check'[l].passed = Append(check[l].passed, new_token)
                      /\ check'[l].events = check[l].events \o stuff
                /\ i = Len(Sources) =>
                      /\ pc'[l] = "done"
                      /\ (check[l].events \o stuff # <<>> /\ ~Resolved(l)) =>
                            deferred'[l].result =
                                Result(check[l].events \o stuff,
                                       listener[l].from_token, new_token)]_vars

\* a check whose second source was asked from the cursor the first returned,
\* further than from_token
C9_Witness ==
    \E l \in Listeners :
        /\ pc[l] = "check"
        /\ Len(check[l].passed) = 2
        /\ check[l].passed[2] = check[l].returned[1]
        /\ check[l].passed[2] > listener[l].from_token
        /\ check[l].events = <<"room">>

\* ------------------------------------------------------------------ C10
\* C10: every call of get_events_for eventually has its Deferred called
\* (with events, with the empty timeout payload or with a failure), when
\* every awaited source call returns or fails and every armed timer fires.
C10_EventuallyResolved ==
    \A l \in Listeners : (pc[l] # "idle") ~> Resolved(l)

\* a call that waited, found nothing and was resolved by its timer
C10_Witness ==
    \E l \in Listeners :
        /\ pc[l] = "done"
        /\ timer[l] = "fired"
        /\ deferred[l].result.kind = "result"
        /\ deferred[l].result.events = <<>>

\* ------------------------------------------------------------------ C11
\* C11: in every reachable state, a listener that _register_with_keys has
\* registered and whose Deferred is not yet called is in
\* rooms_to_listeners[r] for every r of its rooms and in
\* user_to_listeners[listener.user]: no dispatch, join-merge, timeout or
\* resolution of another listener takes a pending listener out of its own
\* entries.
C11_PendingIndexed ==
    \A l \in Listeners :
        (Registered(l) /\ ~Resolved(l)) =>
            /\ \A room \in listener[l].rooms : l \in Get(rooms_to_listeners, room)
            /\ l \in Get(user_to_listeners, listener[l].user)

\* two listeners registered in room r1, one resolved with events and gone
\* from r1, the other still pending in r1 and in its user's entry
C11_Witness ==
    \E l, k \in Listeners :
        /\ l # k
        /\ listener[l].rooms = {"r1"} /\ listener[k].rooms = {"r1"}
        /\ Registered(l) /\ Registered(k)
        /\ deferred[k].result.kind = "result" /\ deferred[k].result.events # <<>>
        /\ k \notin Get(rooms_to_listeners, "r1")
        /\ ~Resolved(l)
        /\ l \in Get(rooms_to_listeners, "r1")
        /\ l \in Get(user_to_listeners, listener[l].user)

\* ------------------------------------------------------------------ C12
\* C12: a notify on a listener whose Deferred is already called, with a
\* result or with a failure, whether it comes from the timer, from the end
\* of the immediate check or from a dispatch, leaves rooms_to_listeners,
\* user_to_listeners and what the Deferred delivered unchanged.
C12_ResolvedNoop ==
    [][\A l \in Listeners :
         (/\ Resolved(l)
          /\ \/ TimeoutListener(l)
             \/ \E stuff \in AllEventLists, new_token \in Tokens :
                   CheckSourceReturn(l, stuff, new_token) /\ pc'[l] = "done"
             \/ \E d \in Dispatchers, events \in AllEventLists, t1 \in Tokens :
                   /\ DispatchSourceReturn(d, events, t1)
                   /\ dispatch[d].cur = l
                   /\ events # <<>>) =>
            /\ rooms_to_listeners' = rooms_to_listeners
            /\ user_to_listeners' = user_to_listeners
            /\ deferred'[l] = deferred[l]]_vars

\* ------------------------------------------------------------------ C13
\* C13: when the query a dispatch (on_new_room_event or on_new_user_event)
\* made for a candidate returns an empty list, the candidate is left as it
\* was: its Deferred is not called by that step, and rooms_to_listeners and
\* user_to_listeners are the same after the step as before.
C13_EmptyUntouched ==
    [][\A d \in Dispatchers, t1 \in Tokens :
         DispatchSourceReturn(d, <<>>, t1) =>
            /\ deferred'[dispatch[d].cur] = deferred[dispatch[d].cur]
            /\ rooms_to_listeners' = rooms_to_listeners
            /\ user_to_listeners' = user_to_listeners]_vars

\* a presence dispatch that has finished with listener k and moved on: k's
\* query returned nothing, k is still pending in r1 and in its user's entry
C13_Witness ==
    \E d \in Dispatchers, k \in Listeners :
        /\ dispatch[d].q.source = "presence"
        /\ Len(dispatch[d].asked) = 2
        /\ dispatch[d].asked[1] = k
        /\ Registered(k) /\ ~Resolved(k)
        /\ listener[k].rooms = {"r1"}
        /\ k \in Get(rooms_to_listeners, "r1")
        /\ k \in Get(user_to_listeners, listener[k].user)

\* ------------------------------------------------------------------ C14
\* C14 as claimed: a listener enters a set of rooms_to_listeners or of
\* user_to_listeners only by its own _register_with_keys, which runs at most
\* once and only for a non-zero timeout, and it leaves a set only by the
\* first resolution of that listener.
C14_Original ==
    [][\A l \in Listeners :
         /\ (\/ \E room \in Rooms : /\ l \notin Get(rooms_to_listeners, room)
                                    /\ l \in Get(rooms_to_listeners', room)
              \/ \E user \in Users : /\ l \notin Get(user_to_listeners, user)
                                    /\ l \in Get(user_to_listeners', user)) =>
               /\ ~Registered(l) /\ Registered(l)'
               /\ listener'[l].timeout # 0
         /\ (\/ \E room \in Rooms : /\ l \in Get(rooms_to_listeners, room)
                                    /\ l \notin Get(rooms_to_listeners', room)
              \/ \E user \in Users : /\ l \in Get(user_to_listeners, user)
                                    /\ l \notin Get(user_to_listeners', user)) =>
               ~Resolved(l) /\ Resolved(l)']_vars

\* C14 amended: a listener enters user_to_listeners[u] only by its own
\* _register_with_keys, with u its user; it enters rooms_to_listeners[r]
\* either by its own _register_with_keys, with r one of its rooms, or by
\* _user_joined_room(u, r) while it is in user_to_listeners[u];
\* _register_with_keys runs at most once per listener and only for a
\* non-zero timeout; a listener leaves a set only by a notify on itself,
\* only from the entries of its own rooms and user, and that notify is its
\* first resolution unless the errback had failed its Deferred before; no
\* key of either dict is ever removed.
C14_IndexChanges ==
    [][/\ \A l \in Listeners :
            /\ \A user \in Users :
                  (/\ l \notin Get(user_to_listeners, user)
                   /\ l \in Get(user_to_listeners', user)) =>
                     /\ ~Registered(l) /\ Registered(l)'
                     /\ user = listener'[l].user
            /\ \A room \in Rooms :
                  (/\ l \notin Get(rooms_to_listeners, room)
                   /\ l \in Get(rooms_to_listeners', room)) =>
                     \/ /\ ~Registered(l) /\ Registered(l)'
                        /\ room \in listener'[l].rooms
                     \/ \E user \in Users :
                           /\ UserJoinedRoom(user, room)
                           /\ l \in Get(user_to_listeners, user)
            /\ Registered(l) => Registered(l)'
            /\ Registered(l)' => listener'[l].timeout # 0
            /\ \A user \in Users :
                  (/\ l \in Get(user_to_listeners, user)
                   /\ l \notin Get(user_to_listeners', user)) =>
                     /\ user = listener[l].user
                     /\ Resolved(l)'
                     /\ Resolved(l) => deferred[l].result.kind = "failure"
            /\ \A room \in Rooms :
                  (/\ l \in Get(rooms_to_listeners, room)
                   /\ l \notin Get(rooms_to_listeners', room)) =>
                     /\ room \in listener[l].rooms
                     /\ Resolved(l)'
                     /\ Resolved(l) => deferred[l].result.kind = "failure"
       /\ DOMAIN rooms_to_listeners \subseteq DOMAIN rooms_to_listeners'
       /\ DOMAIN user_to_listeners \subseteq DOMAIN user_to_listeners']_vars

\* a listener registered in r1, merged into r2 by a join, then resolved: it
\* has left r1 and its user's entry and is still in r2
C14_Witness ==
    \E l \in Listeners :
        /\ Registered(l)
        /\ listener[l].rooms = {"r1"}
        /\ Resolved(l)
        /\ l \notin Get(rooms_to_listeners, "r1")
        /\ l \notin Get(user_to_listeners, listener[l].user)
        /\ l \in Get(rooms_to_listeners, "r2")

\* ------------------------------------------------------------------ C15
\* C15: a dispatch (on_new_room_event or on_new_user_event) iterates over
\* the set of candidates it built when it started: that set does not change
\* while the dispatch is suspended, whatever is registered, resolved or
\* timed out meanwhile; the dispatch queries its source for listeners of
\* that set only, for none of them twice (a listener found through a room
\* entry and a user entry is in the set once), so never for a listener
\* registered after the start; it ends only when its source fails or when
\* the source has answered its last query, and then it has queried every
\* listener of the set.
C15_SnapshotIteration ==
    [][\A d \in Dispatchers :
         LET dsp == dispatch[d]
             new == dispatch'[d]
             Own == \/ \E events \in AllEventLists, t1 \in Tokens :
                          DispatchSourceReturn(d, events, t1)
                    \/ DispatchSourceFail(d)
         IN  /\ (dsp.cur = 0 /\ new.cur # 0) =>
                   /\ \A room_id \in Rooms, extra_users \in SUBSET Users :
                         OnNewRoomEvent(d, room_id, extra_users) =>
                            new.listeners =
                                Get(rooms_to_listeners, room_id) \cup
                                UNION {Get(user_to_listeners, user) :
                                          user \in extra_users}
                   /\ \A users \in SUBSET Users, rooms \in SUBSET Rooms :
                         OnNewUserEvent(d, users, rooms) =>
                            new.listeners =
                                UNION {Get(user_to_listeners, user) :
                                          user \in users} \cup
                                UNION {Get(rooms_to_listeners, room) :
                                          room \in rooms}
             /\ (dsp.cur # 0 /\ new.cur # 0) => new.listeners = dsp.listeners
             /\ (dsp.cur # 0 /\ new # dsp) => Own
             /\ new.cur # 0 =>
                   /\ Range(new.asked) \subseteq new.listeners
                   /\ \A i, j \in 1..Len(new.asked) :
                         new.asked[i] = new.asked[j] => i = j
                   /\ new.asked[Len(new.asked)] = new.cur
                   /\ \A l \in new.listeners : Registered(l)
             /\ \A l \in Listeners :
                   (dsp.cur # 0 /\ ~Registered(l) /\ Registered(l)') =>
                      l \notin Range(new.asked)
             /\ (dsp.cur # 0 /\ new.cur = 0 /\ ~DispatchSourceFail(d)) =>
                   Range(dsp.asked) = dsp.listeners]_vars

\* a dispatch over two candidates, found with no join ever made, that has
\* queried listener 1 and now queries listener 2, which timed out while the
\* dispatch was suspended
C15_Witness ==
    \E d \in Dispatchers :
        /\ "r2" \notin DOMAIN rooms_to_listeners
        /\ dispatch[d].listeners = {1, 2}
        /\ dispatch[d].asked = <<1, 2>>
        /\ dispatch[d].cur = 2
        /\ timer[2] = "fired"
        /\ deferred[2].result = Result(<<>>, listener[2].from_token,
                                       listener[2].from_token)

\* ------------------------------------------------------------------ C16
\* C16: on_new_user_event(users, rooms) takes as candidates exactly the
\* listeners in user_to_listeners[u] for a u of users or in
\* rooms_to_listeners[r] for an r of rooms, queries the presence source with
\* the candidate's own user, from_token and limit, and when the query
\* returns a non-empty list with cursor t1 for an unresolved candidate L,
\* L's Deferred gets (events, (L.from_token, t1)).
C16_UserDispatch ==
    [][\A d \in Dispatchers :
         /\ (dispatch[d].cur = 0 /\ dispatch'[d].cur # 0) =>
               \A users \in SUBSET Users, rooms \in SUBSET Rooms :
                  OnNewUserEvent(d, users, rooms) =>
                     /\ Candidates(dispatch'[d]) =
                            UNION {Get(user_to_listeners, user) : user \in users} \cup
                            UNION {Get(rooms_to_listeners, room) : room \in rooms}
                     /\ dispatch'[d].q.source = "presence"
         /\ (dispatch'[d].cur # 0 /\ dispatch'[d].q.source = "presence") =>
               dispatch'[d].q = [source |-> "presence",
                                 user |-> listener[dispatch'[d].cur].user,
                                 from_token |-> listener[dispatch'[d].cur].from_token,
                                 limit |-> listener[dispatch'[d].cur].limit]
         /\ \A events \in AllEventLists, t1 \in Tokens :
               (/\ DispatchSourceReturn(d, events, t1)
                /\ dispatch[d].q.source = "presence"
                /\ events # <<>>
                /\ ~Resolved(dispatch[d].cur)) =>
                  /\ events \in EventLists("presence", listener[dispatch[d].cur].limit)
                  /\ deferred'[dispatch[d].cur] =
                         [called |-> TRUE,
                          result |-> Result(events,
                                            listener[dispatch[d].cur].from_token,
                                            t1)]]_vars

\* a listener still in its immediate check that a user-event dispatch
\* resolved with a presence event and the cursor after it
C16_Witness ==
    \E l \in Listeners :
        /\ pc[l] = "check"
        /\ listener[l].from_token < MaxToken
        /\ deferred[l].result =
               Result(<<"presence">>, listener[l].from_token,
                      listener[l].from_token + 1)

\* ------------------------------------------------------------------ C17
\* C17: on_new_room_event for a room and extra_users that have no entry, and
\* on_new_user_event for users and rooms that have no entry, end at once
\* without an error, call no Deferred and leave rooms_to_listeners and
\* user_to_listeners as they were; a notify creates no key in either dict
\* and lets no exception out, and on a listener none of whose rooms has an
\* entry and whose user has none it leaves both dicts as they were.
C17_MissingEntries ==
    [][/\ \A d \in Dispatchers, room_id \in Rooms, extra_users \in SUBSET Users :
            (/\ room_id \notin DOMAIN rooms_to_listeners
             /\ extra_users \cap DOMAIN user_to_listeners = {}
             /\ OnNewRoomEvent(d, room_id, extra_users)) =>
               /\ dispatch'[d] = IdleDispatch
               /\ deferred' = deferred
               /\ rooms_to_listeners' = rooms_to_listeners
               /\ user_to_listeners' = user_to_listeners
               /\ ~notifyError'
       /\ \A d \in Dispatchers, users \in SUBSET Users, rooms \in SUBSET Rooms :
            (/\ users \cap DOMAIN user_to_listeners = {}
             /\ rooms \cap DOMAIN rooms_to_listeners = {}
             /\ OnNewUserEvent(d, users, rooms)) =>
               /\ dispatch'[d] = IdleDispatch
               /\ deferred' = deferred
               /\ rooms_to_listeners' = rooms_to_listeners
               /\ user_to_listeners' = user_to_listeners
               /\ ~notifyError'
       /\ \A l \in Listeners :
            (\/ TimeoutListener(l)
             \/ \E stuff \in AllEventLists, new_token \in Tokens :
                   CheckSourceReturn(l, stuff, new_token) /\ pc'[l] = "done"
             \/ \E d \in Dispatchers, events \in AllEventLists, t1 \in Tokens :
                   /\ DispatchSourceReturn(d, events, t1)
                   /\ dispatch[d].cur = l
                   /\ events # <<>>) =>
               /\ DOMAIN rooms_to_listeners' = DOMAIN rooms_to_listeners
               /\ DOMAIN user_to_listeners' = DOMAIN user_to_listeners
               /\ ~notifyError'
               /\ (/\ listener[l].rooms \cap DOMAIN rooms_to_listeners = {}
                   /\ listener[l].user \notin DOMAIN user_to_listeners) =>
                     /\ rooms_to_listeners' = rooms_to_listeners
                     /\ user_to_listeners' = user_to_listeners]_vars

\* a call for room r1 with timeout zero was notified at the end of its check
\* while neither dict had any key, and neither has one now
C17_Witness ==
    \E l \in Listeners :
        /\ pc[l] = "done"
        /\ listener[l].timeout = 0
        /\ listener[l].rooms = {"r1"}
        /\ Resolved(l)
        /\ rooms_to_listeners = << >>
        /\ user_to_listeners = << >>

\* ------------------------------------------------------------------ C18
\* C18: no wake-up is lost across the immediate check.  The step of
\* _get_events that creates a listener with a non-zero timeout also puts it
\* in the entries of its rooms and of its user and sends the first query of
\* its check, to the room source; from then on, during the check (at each
\* of its suspension points) and after it, the listener is in those entries
\* for as long as its Deferred is not called; and an on_new_room_event for
\* one of its rooms that starts at any such moment has it as a candidate.
C18_NoLostWakeup ==
    [][\A l \in Listeners :
         /\ (pc[l] \notin {"check", "done"} /\ pc'[l] = "check") =>
               /\ Len(check'[l].passed) = 1
               /\ Sources[Len(check'[l].passed)] = "room"
               /\ listener'[l].timeout # 0 => Registered(l)'
         /\ (/\ pc'[l] \in {"check", "done"}
             /\ listener'[l].timeout # 0
             /\ ~Resolved(l)') =>
               /\ \A room \in listener'[l].rooms :
                     l \in Get(rooms_to_listeners', room)
               /\ l \in Get(user_to_listeners', listener'[l].user)
         /\ (/\ pc[l] \in {"check", "done"}
             /\ listener[l].timeout # 0
             /\ ~Resolved(l)) =>
               \A d \in Dispatchers, room_id \in listener[l].rooms,
                  extra_users \in SUBSET Users :
                     OnNewRoomEvent(d, room_id, extra_users) =>
                        l \in Candidates(dispatch'[d])]_vars

\* a listener whose check got nothing from the room source and waits for
\* the presence source, while a room dispatch that started meanwhile is
\* asking the room source for it
C18_Witness ==
    \E l \in Listeners, d \in Dispatchers :
        /\ pc[l] = "check"
        /\ listener[l].timeout # 0
        /\ listener[l].rooms = {"r1"}
        /\ Len(check[l].passed) = 2
        /\ check[l].events = <<>>
        /\ ~Resolved(l)
        /\ dispatch[d].cur = l
        /\ dispatch[d].q.source = "room"

\* ------------------------------------------------------------------ C19
\* C19: the from_token of a listener is the token get_events_for was called
\* with or, when it was called with none, the token get_current_token
\* returned, and it is fixed once the listener exists; no listener exists
\* (nothing is registered, armed or resolved) before that token is there;
\* and every result a Deferred holds, whether from the immediate check, a
\* dispatch or the timer, starts at the listener's from_token, and ends
\* there too when its event list is empty.
C19_StartCursor ==
    [][\A l \in Listeners :
         /\ \A user \in Users, rooms \in SUBSET Rooms, from_token \in Tokens,
               limit \in Limits, timeout \in Timeouts :
                 GetEventsFor(l, user, rooms, from_token, limit, timeout) =>
                    pc'[l] = "check" /\ listener'[l].from_token = from_token
         /\ pc'[l] = "get_current_token" =>
               /\ ~Registered(l)' /\ ~Resolved(l)' /\ ~InIndex(l)'
               /\ check'[l] = NoCheck
         /\ \A tok \in Tokens :
               CurrentTokenReturn(l, tok) =>
                  pc'[l] = "check" /\ listener'[l].from_token = tok
         /\ pc[l] \in {"check", "done"} => listener'[l] = listener[l]
         /\ pc'[l] \in {"check", "done"} => listener'[l].from_token \in Tokens
         /\ deferred'[l].result.kind = "result" =>
               /\ deferred'[l].result.start = listener'[l].from_token
               /\ deferred'[l].result.events = <<>> =>
                     deferred'[l].result.end = deferred'[l].result.start]_vars

\* a call made without a token whose timer delivered the empty result at
\* the token get_current_token returned, and a call made with token 1 that
\* a dispatch resolved during its check, starting at 1
C19_Witness ==
    \E l, k \in Listeners :
        /\ listener[l].from_token = MaxToken
        /\ timer[l] = "fired"
        /\ deferred[l].result = Result(<<>>, MaxToken, MaxToken)
        /\ pc[k] = "check"
        /\ listener[k].from_token = 1
        /\ deferred[k].result.kind = "result"
        /\ deferred[k].result.events # <<>>
        /\ deferred[k].result.start = 1

====
